---- MODULE Spec2Model ----
(***************************************************************************)
(* WeatherFlow: the weather data acquisition and resilience layer.         *)
(*                                                                         *)
(*   src/src/lib/storage.ts   localStorage helpers, the forecast snapshot, *)
(*                            favorites, recent searches, last geolocation *)
(*   src/src/lib/api.ts       getCurrent / getForecast / searchCity        *)
(*   src/unnamed/part_003     the Home page: the two useQuery observers,   *)
(*                            their retry policy, the selection handlers   *)
(*                                                                         *)
(* Time is in milliseconds, as Date.getTime() gives it.  Coordinates are   *)
(* in 1/10000 of a degree.  A JS object is a record; a missing             *)
(* property is a missing field, so `'status' in error` is                  *)
(* "status" \in DOMAIN error.                                              *)
(***************************************************************************)
EXTENDS Integers, Sequences, FiniteSets, TLC

\* ------------------------------------------------------------------ bounds

\* The clock advances at most this many steps of ClockStep.
MaxTicks == 2

\* The observers start at most this many lookups (a fetch with its retries).
MaxLookups == 2

\* The storage helpers are called directly at most this many times.
MaxStoreOps == 2

\* ... and at most this many times beside the page's own lookups.
MaxSideOps == 1

\* The page's minute clock makes at most this many steps of WaitStep.
MaxWaits == 2

\* handleRetry is called at most this many times.
MaxRetries == 1

\* isSnapshotRecent is called at, and for snapshots of, the hours 0..MaxHours.
MaxHours == 25

\* The largest weather code given to getWeatherMain.
MaxCode == 100

\* A forecast given to ForecastList has at most this many daily entries.
MaxDays == 7

\* The temperatures converted are -MaxTemp..MaxTemp tenths of a degree
\* Celsius.
MaxTemp == 600

\* ------------------------------------------------------------- environment

\* One step of the clock: 12 hours, so that a snapshot is seen at the ages
\* 0 h, 12 h and 24 h (the boundary).
ClockStep == 12 * 60 * 60 * 1000

\* JS null.
NULL == [null |-> TRUE]

\* localStorage.getItem's answer for a key that is not stored.
NoItem == [absent |-> TRUE]

\* The places a user can select: London, and Paris.
Points == {[lat |-> 515074, lon |-> -1278], [lat |-> 488566, lon |-> 23522]}

Units == {"metric", "imperial"}

Kinds == {"current", "forecast"}

\* process.env.NEXT_PUBLIC_WEATHER_PROVIDER with NEXT_PUBLIC_WEATHER_API_KEY:
\* the default, OpenWeatherMap with a key, OpenWeatherMap without its key.
Providers == {"open-meteo", "openweather", "openweather-nokey"}

\* The persistence medium: usable, throwing on every access (a restrictive
\* privacy mode), or `typeof window === 'undefined'` (no browser).
StorageModes == {"ok", "throws", "nowindow"}

\* What fetch() settles to: a response with its HTTP status, or a rejection
\* (the network is down).
FetchResults ==
  {[type |-> "response", status |-> s] : s \in {200, 404, 500}}
    \cup {[type |-> "reject"]}

\* fetch() is never reached when the provider is not supported.
NotCalled == [type |-> "notcalled"]

VARIABLES
  provider,      \* PROVIDER / API_KEY, fixed for the process
  storageMode,   \* whether localStorage can be used
  localStorage,  \* key -> stored JSON text, or NoItem
  now,           \* the wall clock, ms
  selectedCity,  \* Home's selectedCity state: a point or NULL
  queries,       \* the query cache: <<kind, point>> -> query state
  lookups,       \* the lookups started so far
  storeOps,      \* the direct calls of the storage helpers so far
  lastSaved,     \* the arguments of the last direct saveSnapshot call and
                 \* the number of such calls in a row; NULL when
                 \* clearSnapshot was called after them
  displayUnits,  \* Home's units state: the display unit
  args,          \* the arguments of the last direct call of a function
  result,        \* ... and what the call returned or threw
  retries,       \* the manual retries (handleRetry) so far
  originalCurrentWeather,  \* Home's originalCurrentWeather state
  originalForecast         \* Home's originalForecast state

vars == <<provider, storageMode, localStorage, now, selectedCity, queries,
          lookups, storeOps, lastSaved, displayUnits, args, result, retries,
          originalCurrentWeather, originalForecast>>

\* ---------------------------------------------------------------- storage

SNAPSHOT_KEY == "weatherflow:forecast-snapshot"
RECENT_KEY == "weatherflow:recent"
FAVORITES_KEY == "weatherflow:favorites"
LAST_GEO_KEY == "weatherflow:lastGeo"

StorageKeys == {SNAPSHOT_KEY, RECENT_KEY, FAVORITES_KEY, LAST_GEO_KEY}

\* JSON.stringify / JSON.parse of the plain data the helpers store.
JSONstringify(v) == [json |-> v]
JSONparse(text) == text.json

\* A JS array.
Array(seq) == [array |-> seq]

Min(a, b) == IF a <= b THEN a ELSE b

Abs(x) == IF x >= 0 THEN x ELSE -x

\* array.slice(0, n)
slice0(seq, n) == SubSeq(seq, 1, Min(Len(seq), n))

\* A JS number in the arithmetic of isSnapshotRecent: NaN, or a value.
\* NaN makes a difference NaN and every comparison false.
NaN == [nan |-> TRUE, value |-> 0]

Number(n) == [nan |-> FALSE, value |-> n]

minus(a, b) == IF a.nan \/ b.nan THEN NaN ELSE Number(a.value - b.value)

lessThan(a, b) == ~a.nan /\ ~b.nan /\ a.value < b.value

\* new Date(ms).toISOString() and new Date(text).getTime(): the ISO string
\* keeps the milliseconds; a text that is no date gives NaN.
ToISOString(ms) == [iso |-> ms]
DateGetTime(text) == IF "iso" \in DOMAIN text THEN Number(text.iso) ELSE NaN

getJSON(store, key) ==
  IF storageMode # "ok" THEN NULL
  ELSE IF store[key] = NoItem THEN NULL
  ELSE JSONparse(store[key])

\* A faulty setJSON: only the missing window stops the write.
setJSON_windowOnly(store, key, value) ==
  IF storageMode = "nowindow" THEN store
  ELSE [store EXCEPT ![key] = JSONstringify(value)]

setJSON(store, key, value) ==
  IF storageMode # "ok" THEN store
  ELSE [store EXCEPT ![key] = JSONstringify(value)]

removeKey(store, key) ==
  IF storageMode # "ok" THEN store
  ELSE [store EXCEPT ![key] = NoItem]

\* A faulty saveSnapshot: it keeps a snapshot that is already stored.
saveSnapshot_keepsFirst(store, data, city, units) ==
  IF store[SNAPSHOT_KEY] # NoItem THEN store
  ELSE setJSON(store, SNAPSHOT_KEY,
               [data |-> data, timestamp |-> ToISOString(now), city |-> city, units |-> units])

saveSnapshot(store, data, city, units) ==
  setJSON(store, SNAPSHOT_KEY,
          [data |-> data, timestamp |-> ToISOString(now), city |-> city, units |-> units])

getSnapshot(store) == getJSON(store, SNAPSHOT_KEY)

clearSnapshot(store) == removeKey(store, SNAPSHOT_KEY)

twentyFourHours == 24 * 60 * 60 * 1000

\* A faulty isSnapshotRecent: 24 hours exactly still counts as recent.
isSnapshotRecent_inclusive(snapshot) ==
  LET snapshotTime == DateGetTime(snapshot.timestamp) IN
  lessThan(minus(Number(now), snapshotTime), Number(twentyFourHours + 1))

\* A faulty isSnapshotRecent: recent unless found to be 24 hours old.
isSnapshotRecent_unlessOld(snapshot) ==
  LET snapshotTime == DateGetTime(snapshot.timestamp) IN
  ~lessThan(Number(twentyFourHours - 1), minus(Number(now), snapshotTime))

isSnapshotRecent(snapshot) ==
  LET snapshotTime == DateGetTime(snapshot.timestamp) IN
  lessThan(minus(Number(now), snapshotTime), Number(twentyFourHours))

getRecentSearches(store) ==
  LET recent == getJSON(store, RECENT_KEY) IN
  IF recent = NULL THEN <<>> ELSE recent.array

MAX_RECENT == 6

\* A faulty addRecentSearch: the city is put in front of the list as it is.
addRecentSearch_keepsOld(store, city) ==
  IF storageMode = "nowindow" THEN store
  ELSE
    LET recent == getRecentSearches(store)
        updated == <<city>> \o recent
        limited == slice0(updated, MAX_RECENT)
    IN setJSON(store, RECENT_KEY, Array(limited))

addRecentSearch(store, city) ==
  IF storageMode = "nowindow" THEN store
  ELSE
    LET recent == getRecentSearches(store)
        keep(existing) == existing.lat # city.lat \/ existing.lon # city.lon
        filtered == SelectSeq(recent, keep)
        updated == <<city>> \o filtered
        limited == slice0(updated, MAX_RECENT)
    IN setJSON(store, RECENT_KEY, Array(limited))

clearRecentSearches(store) == removeKey(store, RECENT_KEY)

MAX_FAVORITES == 8

getFavorites(store) ==
  LET favorites == getJSON(store, FAVORITES_KEY) IN
  IF favorites = NULL THEN <<>> ELSE favorites.array

\* The comparison addFavorite, removeFavorite and isFavorite share:
\* Math.abs(...) < 0.001 is less than 10 units of 1/10000 degree.
sameFavorite(fav, city) ==
  /\ fav.name = city.name
  /\ fav.country = city.country
  /\ Abs(fav.lat - city.lat) < 10
  /\ Abs(fav.lon - city.lon) < 10

isFavorite(store, city) ==
  IF storageMode = "nowindow" THEN FALSE
  ELSE \E i \in 1..Len(getFavorites(store)) : sameFavorite(getFavorites(store)[i], city)

\* A faulty addFavorite: only a favorite at the very same coordinates
\* counts as existing.
addFavorite_exactMatch(store, city) ==
  IF storageMode = "nowindow" THEN [result |-> FALSE, store |-> store]
  ELSE
    LET favorites == getFavorites(store)
        exists == \E i \in 1..Len(favorites) :
                    /\ favorites[i].name = city.name
                    /\ favorites[i].country = city.country
                    /\ favorites[i].lat = city.lat
                    /\ favorites[i].lon = city.lon
        newFavorite == [name |-> city.name, country |-> city.country,
                        lat |-> city.lat, lon |-> city.lon,
                        addedAt |-> ToISOString(now)]
        updatedFavorites == slice0(<<newFavorite>> \o favorites, MAX_FAVORITES)
    IN
    IF exists THEN [result |-> FALSE, store |-> store]
    ELSE [result |-> TRUE, store |-> setJSON(store, FAVORITES_KEY, Array(updatedFavorites))]

\* A faulty addFavorite: the list grows without limit.
addFavorite_uncapped(store, city) ==
  IF storageMode = "nowindow" THEN [result |-> FALSE, store |-> store]
  ELSE
    LET favorites == getFavorites(store)
        exists == \E i \in 1..Len(favorites) : sameFavorite(favorites[i], city)
        newFavorite == [name |-> city.name, country |-> city.country,
                        lat |-> city.lat, lon |-> city.lon,
                        addedAt |-> ToISOString(now)]
    IN
    IF exists THEN [result |-> FALSE, store |-> store]
    ELSE [result |-> TRUE,
          store |-> setJSON(store, FAVORITES_KEY, Array(<<newFavorite>> \o favorites))]

\* addFavorite / removeFavorite: the boolean returned and the store left.
addFavorite(store, city) ==
  IF storageMode = "nowindow" THEN [result |-> FALSE, store |-> store]
  ELSE
    LET favorites == getFavorites(store)
        exists == \E i \in 1..Len(favorites) : sameFavorite(favorites[i], city)
        newFavorite == [name |-> city.name, country |-> city.country,
                        lat |-> city.lat, lon |-> city.lon,
                        addedAt |-> ToISOString(now)]
        updatedFavorites == slice0(<<newFavorite>> \o favorites, MAX_FAVORITES)
    IN
    IF exists THEN [result |-> FALSE, store |-> store]
    ELSE [result |-> TRUE, store |-> setJSON(store, FAVORITES_KEY, Array(updatedFavorites))]

removeFavorite(store, city) ==
  IF storageMode = "nowindow" THEN [result |-> FALSE, store |-> store]
  ELSE
    LET favorites == getFavorites(store)
        keep(fav) == ~sameFavorite(fav, city)
        updatedFavorites == SelectSeq(favorites, keep)
    IN [result |-> TRUE, store |-> setJSON(store, FAVORITES_KEY, Array(updatedFavorites))]

clearFavorites(store) == removeKey(store, FAVORITES_KEY)

setLastGeo(store, lat, lon, label) ==
  setJSON(store, LAST_GEO_KEY,
          [lat |-> lat, lon |-> lon, label |-> label, updatedAt |-> ToISOString(now)])

clearLastGeo(store) == removeKey(store, LAST_GEO_KEY)

\* --------------------------------------------------------------------- api

\* new Error(message): an object with a name and a message and no other
\* property.  The message is the text and the HTTP status it embeds.
NewError(text, status) == [name |-> "Error", message |-> <<text, status>>]

\* What a rejected fetch() throws.
FetchRejected == [name |-> "TypeError", message |-> <<"Failed to fetch", 0>>]

\* response.ok
ResponseOk(response) == response.status >= 200 /\ response.status <= 299

\* How a call of getCurrent / getForecast ends: a returned value or a thrown
\* error, the store as the call left it, and whether it read the snapshot.
Return(value, store, read) ==
  [thrown |-> FALSE, value |-> value, store |-> store, read |-> read]

Throw(error, store, read) ==
  [thrown |-> TRUE, value |-> error, store |-> store, read |-> read]

\* x.toFixed(2): 1/10000 rounded to hundredths, halves away from zero.
toFixed2(x) == IF x >= 0 THEN (x + 50) \div 100 ELSE -((-x + 50) \div 100)

\* `${lat.toFixed(2)}, ${lon.toFixed(2)}`
cityName(lat, lon) == <<toFixed2(lat), toFixed2(lon)>>

\* The normalized records built from a 2xx response: the provider answers
\* for the requested coordinates with the conditions of the moment.
CurrentWeatherOf(lat, lon) ==
  [what |-> "current", coord |-> [lat |-> lat, lon |-> lon], dt |-> now]

ForecastOf(lat, lon) ==
  [what |-> "forecast", coord |-> [lat |-> lat, lon |-> lon], dt |-> now]

\* The queries typed into the search box, and query.trim().
Queries == {"", " ", "Lon"}

trim(query) == IF query = " " THEN "" ELSE query

\* An entry of the geocoding answer (OpenMeteoGeocodingResult).
GeocodingLondon ==
  [latitude |-> 515074, longitude |-> -1278, name |-> "London", country |-> "GB"]

\* data.results of the geocoding answer: missing, an object that is not an
\* array, no place, one place, or an array holding null.
GeocodingResults ==
  {NULL, [object |-> TRUE], Array(<<>>), Array(<<GeocodingLondon>>), Array(<<NULL>>)}

\* The body of a geocoding response: text that is not JSON, the JSON value
\* null, or an object with its results.
GeocodingBodies ==
  {[json |-> FALSE], [json |-> TRUE, data |-> NULL]}
    \cup {[json |-> TRUE, data |-> [results |-> r]] : r \in GeocodingResults}

\* Array.isArray(value)
isArray(value) == "array" \in DOMAIN value

\* What response.json() throws for a body that is not JSON, and what reading
\* a property of null throws.
JSONSyntaxError == [name |-> "SyntaxError", message |-> <<"Unexpected token", 0>>]

NullTypeError == [name |-> "TypeError", message |-> <<"Cannot read properties of null", 0>>]

\* The GeoPoint made of an entry of the answer.
GeoPointOf(entry) ==
  [lat |-> entry.latitude, lon |-> entry.longitude,
   name |-> entry.name, country |-> entry.country]

\* The outcome of a call together with the number of fetch() calls it made.
Fetching(out, fetches) ==
  [thrown |-> out.thrown, value |-> out.value, store |-> out.store,
   read |-> out.read, fetches |-> fetches]

\* A faulty searchCity: a blank query is sent to the provider like any other.
searchCity_sendsBlank(query, fr, body, store) ==
  IF fr.type = "reject" THEN Fetching(Throw(FetchRejected, store, FALSE), 1)
  ELSE IF ~ResponseOk(fr)
    THEN Fetching(Throw(NewError("Failed to search cities", fr.status), store, FALSE), 1)
  ELSE IF ~body.json THEN Fetching(Throw(JSONSyntaxError, store, FALSE), 1)
  ELSE IF body.data = NULL THEN Fetching(Throw(NullTypeError, store, FALSE), 1)
  ELSE LET results == body.data.results IN
    IF results = NULL \/ ~isArray(results)
      THEN Fetching(Return(Array(<<>>), store, FALSE), 1)
    ELSE IF \E i \in 1..Len(results.array) : results.array[i] = NULL
      THEN Fetching(Throw(NullTypeError, store, FALSE), 1)
    ELSE Fetching(Return(Array([i \in 1..Len(results.array) |->
                                  GeoPointOf(results.array[i])]), store, FALSE), 1)

searchCity(query, fr, body, store) ==
  IF trim(query) = "" THEN Fetching(Return(Array(<<>>), store, FALSE), 0)
  ELSE IF fr.type = "reject" THEN Fetching(Throw(FetchRejected, store, FALSE), 1)
  ELSE IF ~ResponseOk(fr)
    THEN Fetching(Throw(NewError("Failed to search cities", fr.status), store, FALSE), 1)
  ELSE IF ~body.json THEN Fetching(Throw(JSONSyntaxError, store, FALSE), 1)
  ELSE IF body.data = NULL THEN Fetching(Throw(NullTypeError, store, FALSE), 1)
  ELSE LET results == body.data.results IN
    IF results = NULL \/ ~isArray(results)
      THEN Fetching(Return(Array(<<>>), store, FALSE), 1)
    ELSE IF \E i \in 1..Len(results.array) : results.array[i] = NULL
      THEN Fetching(Throw(NullTypeError, store, FALSE), 1)
    ELSE Fetching(Return(Array([i \in 1..Len(results.array) |->
                                  GeoPointOf(results.array[i])]), store, FALSE), 1)

\* weatherMap of getWeatherMain: the category of each WMO weather code the
\* table lists.
weatherMap ==
  [code \in {0, 1, 2, 3, 45, 48, 51, 53, 55, 56, 57, 61, 63, 65, 66, 67,
             71, 73, 75, 77, 80, 81, 82, 85, 86, 95, 96, 99} |->
     CASE code = 0 -> "Clear"
       [] code \in {1, 2, 3} -> "Clear"
       [] code \in {45, 48} -> "Fog"
       [] code \in {51, 53, 55} -> "Drizzle"
       [] code \in {56, 57} -> "Drizzle"
       [] code \in {61, 63, 65} -> "Rain"
       [] code \in {66, 67} -> "Rain"
       [] code \in {71, 73, 75} -> "Snow"
       [] code = 77 -> "Snow"
       [] code \in {80, 81, 82} -> "Rain"
       [] code \in {85, 86} -> "Snow"
       [] code = 95 -> "Thunderstorm"
       [] code \in {96, 99} -> "Thunderstorm"]

\* A faulty getWeatherMain: overcast (code 3) is reported as "Clouds".
getWeatherMain_overcast(code) ==
  IF code = 3 THEN "Clouds"
  ELSE IF code \in DOMAIN weatherMap THEN weatherMap[code] ELSE "Unknown"

\* weatherMap[code] || 'Unknown': a code the table does not list reads as
\* undefined; no category of the table is an empty string.
getWeatherMain(code) ==
  IF code \in DOMAIN weatherMap /\ weatherMap[code] # "" THEN weatherMap[code]
  ELSE "Unknown"

\* A faulty getCurrentOpenMeteo: on failure it serves a recent snapshot.
getCurrentOpenMeteo_fallback(lat, lon, units, fr, store) ==
  IF fr.type = "response" /\ ResponseOk(fr)
    THEN Return(CurrentWeatherOf(lat, lon), store, FALSE)
  ELSE LET snapshot == getSnapshot(store) IN
       IF snapshot # NULL /\ isSnapshotRecent(snapshot)
         THEN Return([_cached |-> TRUE, _cachedAt |-> snapshot.timestamp] @@ snapshot.data,
                     store, TRUE)
       ELSE Throw(FetchRejected, store, TRUE)

getCurrentOpenMeteo(lat, lon, units, fr, store) ==
  IF fr.type = "reject" THEN Throw(FetchRejected, store, FALSE)
  ELSE IF ~ResponseOk(fr)
    THEN Throw(NewError("Failed to fetch current weather", fr.status), store, FALSE)
  ELSE Return(CurrentWeatherOf(lat, lon), store, FALSE)

getCurrentOpenWeather(lat, lon, units, fr, store) ==
  IF fr.type = "reject" THEN Throw(FetchRejected, store, FALSE)
  ELSE IF ~ResponseOk(fr) THEN
    IF fr.status = 401 THEN Throw(NewError("Invalid API key", 0), store, FALSE)
    ELSE IF fr.status = 404 THEN Throw(NewError("Weather data not found", 0), store, FALSE)
    ELSE IF fr.status = 429 THEN Throw(NewError("API rate limit exceeded", 0), store, FALSE)
    ELSE Throw(NewError("Failed to fetch weather data", fr.status), store, FALSE)
  ELSE Return(CurrentWeatherOf(lat, lon), store, FALSE)

Unsupported == NewError("Unsupported provider or missing key", 0)

getCurrent(lat, lon, units, fr, store) ==
  IF provider = "open-meteo" THEN getCurrentOpenMeteo(lat, lon, units, fr, store)
  ELSE IF provider = "openweather" THEN getCurrentOpenWeather(lat, lon, units, fr, store)
  ELSE Throw(Unsupported, store, FALSE)

\* The try block of getForecast's Open-Meteo branch: what it throws into
\* its own catch, or the forecast it built.
ForecastTry(lat, lon, fr) ==
  IF fr.type = "reject" THEN [caught |-> TRUE, error |-> FetchRejected]
  ELSE IF ~ResponseOk(fr)
    THEN [caught |-> TRUE, error |-> NewError("Failed to fetch forecast", fr.status)]
  ELSE [caught |-> FALSE, forecast |-> ForecastOf(lat, lon)]

\* A faulty CachedForecast: _cachedAt is the time of the fallback.
CachedForecast_restamped(snapshot) ==
  [_cached |-> TRUE, _cachedAt |-> ToISOString(now)] @@ snapshot.data

\* { ...snapshot.data, _cached: true, _cachedAt: snapshot.timestamp }
CachedForecast(snapshot) ==
  [_cached |-> TRUE, _cachedAt |-> snapshot.timestamp] @@ snapshot.data

\* A faulty catch block: it removes a snapshot it finds too old.
ForecastCatch_dropsStale(error, store) ==
  LET snapshot == getSnapshot(store) IN
  IF snapshot # NULL /\ isSnapshotRecent(snapshot)
    THEN Return([_cached |-> TRUE, _cachedAt |-> snapshot.timestamp] @@ snapshot.data,
                store, TRUE)
  ELSE Throw(error, clearSnapshot(store), TRUE)

\* The catch block: the snapshot when there is a recent one, else the error.
ForecastCatch(error, store) ==
  LET snapshot == getSnapshot(store) IN
  IF snapshot # NULL /\ isSnapshotRecent(snapshot)
    THEN Return(CachedForecast(snapshot), store, TRUE)
  ELSE Throw(error, store, TRUE)

getForecastOpenMeteo(lat, lon, units, fr, store) ==
  LET t == ForecastTry(lat, lon, fr) IN
  IF t.caught THEN ForecastCatch(t.error, store)
  ELSE Return(t.forecast, saveSnapshot(store, t.forecast, cityName(lat, lon), units), FALSE)

getForecastOpenWeather(lat, lon, units, fr, store) ==
  IF fr.type = "reject" THEN Throw(FetchRejected, store, FALSE)
  ELSE IF ~ResponseOk(fr)
    THEN Throw(NewError("Failed to fetch forecast", fr.status), store, FALSE)
  ELSE Return(ForecastOf(lat, lon), store, FALSE)

getForecast(lat, lon, units, fr, store) ==
  IF provider = "open-meteo" THEN getForecastOpenMeteo(lat, lon, units, fr, store)
  ELSE IF provider = "openweather" THEN getForecastOpenWeather(lat, lon, units, fr, store)
  ELSE Throw(Unsupported, store, FALSE)

\* ------------------------------------------------------------- query cache

\* A faulty retry: two retries for the errors that are retried.
retry_twice(failureCount, error) ==
  IF "status" \in DOMAIN error /\ error.status >= 400 /\ error.status < 500
    THEN FALSE
  ELSE failureCount < 2

\* retry: (failureCount, error) => ... of both useQuery calls.
retry(failureCount, error) ==
  IF "status" \in DOMAIN error /\ error.status >= 400 /\ error.status < 500
    THEN FALSE
  ELSE failureCount < 1

\* A faulty staleTime: the forecast's 30 minutes for both kinds.
staleTime_forecastForBoth(kind) == 30 * 60 * 1000

staleTime(kind) == IF kind = "current" THEN 8 * 60 * 1000 ELSE 30 * 60 * 1000

gcTime(kind) == IF kind = "current" THEN 15 * 60 * 1000 ELSE 60 * 60 * 1000

\* queryKeys.current(lat, lon, units) / queryKeys.forecast(lat, lon, units):
\* the key (operation, lat, lon, units).
queryKeys(kind, lat, lon, keyUnits) == <<kind, [lat |-> lat, lon |-> lon], keyUnits>>

\* The keys the cache can hold an entry for.
Keys == Kinds \X Points \X Units

\* A faulty observerKey: the key carries the display unit.
observerKey_displayUnits(kind, city) ==
  queryKeys(kind, city.lat, city.lon, displayUnits)

\* queryKey: of the useQuery call of `kind` while `city` is selected.
observerKey(kind, city) == queryKeys(kind, city.lat, city.lon, "metric")

\* Whether an observer of the page is subscribed to the entry of `key`.
observed(key) ==
  /\ selectedCity # NULL
  /\ storageMode # "nowindow"
  /\ key = observerKey(key[1], selectedCity)

\* A query the cache has no entry for.  calls, snapRead and fr describe the
\* lookup (one fetch with its retries) in progress or last finished: the
\* fetch() calls it made, whether it read the snapshot, and what its last
\* fetch() settled to.  sharing is the number of lookups served by the
\* fetch, inFlight the queryFn calls of the fetch not yet settled, orphans
\* the queryFn calls of cancelled fetches not yet settled.
NoQuery ==
  [status |-> "pending", fetchStatus |-> "idle", failureCount |-> 0,
   data |-> NULL, error |-> NULL, failureReason |-> NULL, dataUpdatedAt |-> 0,
   isInvalidated |-> FALSE,
   calls |-> 0, snapRead |-> FALSE, fr |-> NotCalled,
   sharing |-> 0, inFlight |-> 0, orphans |-> 0]

isStale(q, kind) ==
  \/ q.isInvalidated
  \/ q.status # "success"
  \/ now - q.dataUpdatedAt >= staleTime(kind)

\* queryFn of the observer of `kind`, called for the selected point.
queryFn(kind, point, fr, store) ==
  IF kind = "current" THEN getCurrent(point.lat, point.lon, "metric", fr, store)
  ELSE getForecast(point.lat, point.lon, "metric", fr, store)

\* What the retryer makes of a settled queryFn call.  A query that lost its
\* last observer has its retries cancelled: the call in flight is awaited,
\* a failure of it is final.
Settle(q0, out, fr, retryCancelled) ==
  LET q == [q0 EXCEPT !.fr = fr]
      called == IF fr = NotCalled THEN 0 ELSE 1
  IN
  IF ~out.thrown THEN
    [q EXCEPT !.status = "success", !.fetchStatus = "idle", !.failureCount = 0,
              !.data = out.value, !.error = NULL, !.failureReason = NULL,
              !.dataUpdatedAt = now, !.isInvalidated = FALSE,
              !.calls = @ + called, !.snapRead = @ \/ out.read,
              !.inFlight = 0]
  ELSE IF ~retryCancelled /\ retry(q.failureCount, out.value) THEN
    [q EXCEPT !.failureCount = @ + 1, !.failureReason = out.value,
              !.calls = @ + called, !.snapRead = @ \/ out.read]
  ELSE
    [q EXCEPT !.status = "error", !.fetchStatus = "idle", !.error = out.value,
              !.failureReason = out.value,
              !.calls = @ + called, !.snapRead = @ \/ out.read,
              !.inFlight = 0]

Init ==
  /\ provider \in Providers
  /\ storageMode \in StorageModes
  /\ localStorage = [k \in StorageKeys |-> NoItem]
  /\ now = 0
  /\ selectedCity = NULL
  /\ queries = [key \in Keys |-> NoQuery]
  /\ lookups = 0
  /\ storeOps = 0
  /\ lastSaved = NULL
  /\ displayUnits = "metric"
  /\ args = NULL
  /\ result = NULL
  /\ retries = 0
  /\ originalCurrentWeather = NULL
  /\ originalForecast = NULL

\* The query starts a fetch: the counters of the fetch are reset, and a
\* query without data shows as pending again.
fetchState(q) ==
  [q EXCEPT !.fetchStatus = "fetching", !.failureCount = 0, !.failureReason = NULL,
            !.status = IF q.data = NULL THEN "pending" ELSE @,
            !.error = IF q.data = NULL THEN NULL ELSE @,
            !.calls = 0, !.snapRead = FALSE, !.fr = NotCalled,
            !.sharing = 1, !.inFlight = 1]

\* data of the useQuery call of `kind`, as the render after the step sees
\* it: undefined while no city is selected.
dataAfter(kind) ==
  IF selectedCity' = NULL THEN NULL
  ELSE queries'[observerKey(kind, selectedCity')].data

\* The two effects that run after the render: each keeps the first data it
\* sees while its original is null.  `current` and `forecast` are the
\* originals as the handler of the step left them.
useEffect(current, forecast) ==
  /\ originalCurrentWeather' =
       IF dataAfter("current") # NULL /\ current = NULL
         THEN dataAfter("current") ELSE current
  /\ originalForecast' =
       IF dataAfter("forecast") # NULL /\ forecast = NULL
         THEN dataAfter("forecast") ELSE forecast

\* handleCitySelect.
SelectCity(point) ==
  /\ selectedCity' = point
  /\ UNCHANGED <<displayUnits, args, result, retries, provider, storageMode, localStorage, now, queries,
                 lookups, storeOps, lastSaved>>
  /\ useEffect(NULL, NULL)

\* handleClearSearch / handleGoHome.
ClearSearch ==
  /\ selectedCity # NULL
  /\ selectedCity' = NULL
  /\ UNCHANGED <<displayUnits, args, result, retries, provider, storageMode, localStorage, now, queries,
                 lookups, storeOps, lastSaved>>
  /\ useEffect(originalCurrentWeather, originalForecast)

\* enabled: !!selectedCity && typeof window !== 'undefined'
enabled(point) == selectedCity = point /\ storageMode # "nowindow"

\* The observer of `kind` for the selected city starts a lookup: the entry
\* is missing, failed or stale when the observer mounts or refetches.
StartFetch(kind, point) ==
  LET key == observerKey(kind, point)
      q == queries[key]
  IN
  /\ lookups < MaxLookups
  /\ enabled(point)
  /\ q.fetchStatus = "idle"
  /\ isStale(q, kind)
  /\ queries' = [queries EXCEPT ![key] = fetchState(q)]
  /\ lookups' = lookups + 1
  /\ UNCHANGED <<displayUnits, args, result, retries, provider, storageMode, localStorage, now, selectedCity,
                 storeOps, lastSaved>>
  /\ useEffect(originalCurrentWeather, originalForecast)

\* The call of queryFn in flight for <<kind, point>> settles: fetch() gave
\* `fr` (or was never reached), the api function returns or throws, and the
\* retryer stores the result, schedules the retry or stores the error.
Respond(kind, point, fr) ==
  \E keyUnits \in Units :
    LET key == <<kind, point, keyUnits>>
        q == queries[key]
        out == queryFn(kind, point, fr, localStorage)
    IN
    /\ q.fetchStatus = "fetching"
    /\ queries' = [queries EXCEPT ![key] = Settle(q, out, fr, ~observed(key))]
    /\ localStorage' = out.store
  /\ UNCHANGED <<displayUnits, args, result, retries, provider, storageMode, now, selectedCity, lookups,
                 storeOps, lastSaved>>
  /\ useEffect(originalCurrentWeather, originalForecast)

\* What fetch() can settle to under the configured provider.
Answers ==
  IF provider \in {"open-meteo", "openweather"} THEN FetchResults ELSE {NotCalled}

ProviderAnswers ==
  \E kind \in Kinds, point \in Points : \E fr \in Answers : Respond(kind, point, fr)

\* clearSnapshot() called: the explicit user action.
ClearSnapshot ==
  /\ localStorage' = clearSnapshot(localStorage)
  /\ lastSaved' = NULL
  /\ UNCHANGED <<displayUnits, args, result, retries, provider, storageMode, now, selectedCity, queries,
                 lookups, storeOps,
                 originalCurrentWeather, originalForecast>>

\* 12 hours pass with no request in flight.  Every entry without an
\* observer outlives its gcTime and is removed from the cache.
Tick ==
  /\ now + ClockStep <= MaxTicks * ClockStep
  /\ \A key \in Keys : queries[key].fetchStatus = "idle" /\ queries[key].orphans = 0
  /\ ClockStep >= gcTime("current") /\ ClockStep >= gcTime("forecast")
  /\ now' = now + ClockStep
  /\ queries' = [key \in Keys |-> IF observed(key) THEN queries[key] ELSE NoQuery]
  /\ UNCHANGED <<displayUnits, args, result, retries, provider, storageMode, localStorage, selectedCity,
                 lookups, storeOps, lastSaved>>
  /\ useEffect(originalCurrentWeather, originalForecast)

Next ==
  \/ \E point \in Points : SelectCity(point)
  \/ ClearSearch
  \/ \E kind \in Kinds, point \in Points : StartFetch(kind, point)
  \/ ProviderAnswers
  \/ ClearSnapshot
  \/ Tick

Spec == Init /\ [][Next]_vars

\* ------------------------------------------- the page with a minute clock

\* One step of the page's clock, in ms, and the steps it makes.
WaitStep == 4 * 60 * 1000

\* handleUnitsChange.
UnitsChange(newUnits) ==
  /\ displayUnits' = newUnits
  /\ UNCHANGED <<args, result, retries, provider, storageMode, localStorage, now, selectedCity,
                 queries, lookups, storeOps, lastSaved>>
  /\ useEffect(originalCurrentWeather, originalForecast)

\* A faulty Join: the second lookup calls the provider itself.
Join_duplicates(kind, point) ==
  LET key == observerKey(kind, point)
      q == queries[key]
  IN
  /\ lookups < MaxLookups
  /\ enabled(point)
  /\ q.fetchStatus = "fetching"
  /\ queries' = [queries EXCEPT ![key].sharing = @ + 1, ![key].inFlight = @ + 1]
  /\ lookups' = lookups + 1
  /\ UNCHANGED <<displayUnits, args, result, retries, provider, storageMode, localStorage, now,
                 selectedCity, storeOps, lastSaved>>
  /\ useEffect(originalCurrentWeather, originalForecast)

\* The observer of `kind` looks the selected city up (it mounts again, the
\* window gets the focus) while the fetch of its key is in flight: the
\* lookup shares the fetch.
Join(kind, point) ==
  LET key == observerKey(kind, point)
      q == queries[key]
  IN
  /\ lookups < MaxLookups
  /\ enabled(point)
  /\ q.fetchStatus = "fetching"
  /\ queries' = [queries EXCEPT ![key].sharing = @ + 1]
  /\ lookups' = lookups + 1
  /\ UNCHANGED <<displayUnits, args, result, retries, provider, storageMode, localStorage, now,
                 selectedCity, storeOps, lastSaved>>
  /\ useEffect(originalCurrentWeather, originalForecast)

\* queryClient.invalidateQueries({ queryKey }) for one entry: an entry of
\* the cache under that key is marked invalidated; when it has an observer
\* it is fetched again, the fetch in flight being shared when the query has
\* no data and cancelled (its call left to run) when it has.
invalidateQueries(key) ==
  LET q == queries[key]
      invalidated == [q EXCEPT !.isInvalidated = TRUE]
  IN
  IF ~observed(key) /\ q = NoQuery THEN q
  ELSE IF ~observed(key) THEN invalidated
  ELSE IF q.fetchStatus = "fetching" /\ q.data = NULL
    THEN [invalidated EXCEPT !.sharing = @ + 1]
  ELSE IF q.fetchStatus = "fetching"
    THEN [fetchState(invalidated) EXCEPT !.orphans = @ + 1]
  ELSE fetchState(invalidated)

\* The keys handleRetry invalidates.
retryKeys ==
  {queryKeys(kind, selectedCity.lat, selectedCity.lon, displayUnits) : kind \in Kinds}

\* handleRetry.
Retry ==
  /\ retries < MaxRetries
  /\ selectedCity # NULL
  /\ retries' = retries + 1
  /\ queries' = [key \in Keys |->
                   IF key \in retryKeys THEN invalidateQueries(key) ELSE queries[key]]
  /\ UNCHANGED <<displayUnits, args, result, provider, storageMode, localStorage, now,
                 selectedCity, lookups, storeOps, lastSaved>>
  /\ useEffect(originalCurrentWeather, originalForecast)

\* The call of a cancelled fetch settles: the cache ignores it, what the
\* api function did to the store stays done.
OrphanRespond(kind, point, fr) ==
  \E keyUnits \in Units :
    LET key == <<kind, point, keyUnits>>
        q == queries[key]
        out == queryFn(kind, point, fr, localStorage)
    IN
    /\ q.orphans > 0
    /\ queries' = [queries EXCEPT ![key].orphans = @ - 1]
    /\ localStorage' = out.store
    /\ UNCHANGED <<displayUnits, args, result, retries, provider, storageMode, now, selectedCity,
                   lookups, storeOps, lastSaved>>
    /\ useEffect(originalCurrentWeather, originalForecast)

\* What fetch() settles to while the page is watched: the answer, or the
\* network is down.
PageAnswers == {[type |-> "response", status |-> 200], [type |-> "reject"]}

\* The place selected while the page is watched: London.
PagePoints == {[lat |-> 515074, lon |-> -1278]}

PageProviderAnswers ==
  \E kind \in Kinds, point \in PagePoints :
    \E fr \in PageAnswers : Respond(kind, point, fr)

OrphanAnswers ==
  \E kind \in Kinds, point \in PagePoints :
    \E fr \in PageAnswers : OrphanRespond(kind, point, fr)

\* Minutes pass with no request in flight.  The page is watched for less
\* than the shortest gcTime, so no entry is removed from the cache.
Wait ==
  /\ now + WaitStep <= MaxWaits * WaitStep
  /\ \A key \in Keys : queries[key].fetchStatus = "idle" /\ queries[key].orphans = 0
  /\ now + WaitStep < gcTime("current") /\ now + WaitStep < gcTime("forecast")
  /\ now' = now + WaitStep
  /\ UNCHANGED <<displayUnits, args, result, retries, provider, storageMode, localStorage,
                 selectedCity, queries, lookups, storeOps, lastSaved>>
  /\ useEffect(originalCurrentWeather, originalForecast)

NextPage ==
  \/ \E point \in PagePoints : SelectCity(point)
  \/ ClearSearch
  \/ \E kind \in Kinds, point \in PagePoints : StartFetch(kind, point)
  \/ \E kind \in Kinds, point \in PagePoints : Join(kind, point)
  \/ PageProviderAnswers
  \/ OrphanAnswers
  \/ \E newUnits \in Units : UnitsChange(newUnits)
  \/ Retry
  \/ Wait

\* The page under the default provider, in a browser with a usable store.
InitPage == Init /\ provider = "open-meteo" /\ storageMode = "ok"

SpecPage == InitPage /\ [][NextPage]_vars

\* ------------------------------------------------------- the page's views

\* The cities the helpers are called with.
CityOf(point) ==
  [lat |-> point.lat, lon |-> point.lon,
   name |-> cityName(point.lat, point.lon), country |-> "XX"]

Cities == {CityOf(point) : point \in Points}

\* data, isLoading and error of the useQuery call of `kind` in the render
\* of the state.  Without a selected city the query is disabled under its
\* placeholder key: no data, not loading, no error.
queryOf(kind) == queries[observerKey(kind, selectedCity)]

dataOf(kind) == IF selectedCity = NULL THEN NULL ELSE queryOf(kind).data

isLoadingOf(kind) ==
  /\ selectedCity # NULL
  /\ queryOf(kind).status = "pending"
  /\ queryOf(kind).fetchStatus = "fetching"

errorOf(kind) == IF selectedCity = NULL THEN NULL ELSE queryOf(kind).error

\* The canonical records the display is computed from:
\* convertedCurrentWeather and convertedForecastData before the conversion
\* to the display unit.
shownCurrentWeather ==
  IF originalCurrentWeather = NULL THEN dataOf("current") ELSE originalCurrentWeather

shownForecast ==
  IF originalForecast = NULL THEN dataOf("forecast") ELSE originalForecast

\* The four blocks of the main content and their conditions.
EmptyView == selectedCity = NULL

LoadingView ==
  /\ selectedCity # NULL
  /\ originalCurrentWeather = NULL
  /\ (isLoadingOf("current") \/ isLoadingOf("forecast"))

ErrorView ==
  /\ selectedCity # NULL
  /\ (errorOf("current") # NULL \/ errorOf("forecast") # NULL)
  /\ ~isLoadingOf("current")
  /\ ~isLoadingOf("forecast")

ContentView ==
  /\ selectedCity # NULL
  /\ originalCurrentWeather # NULL
  /\ ~isLoadingOf("current")
  /\ ~isLoadingOf("forecast")

\* handleUseLocation when askLocation() resolves with `point`: the location
\* is saved, selected and added to the recent searches.  (When it rejects,
\* only the location error and the permission state change.)
UseLocation(point) ==
  LET locationCity == CityOf(point)
      locationLabel == <<locationCity.name, locationCity.country>>
  IN
  /\ localStorage' = addRecentSearch(
                       setLastGeo(localStorage, point.lat, point.lon, locationLabel),
                       locationCity)
  /\ selectedCity' = point
  /\ UNCHANGED <<provider, storageMode, now, queries, lookups, storeOps, lastSaved,
                 displayUnits, args, result, retries>>
  /\ useEffect(originalCurrentWeather, originalForecast)

\* Both observers of the selected city start their lookups in the render
\* that follows the selection: each entry that is missing, failed or stale
\* is fetched.
Observe(point) ==
  LET starts(key) ==
        /\ key = observerKey(key[1], point)
        /\ queries[key].fetchStatus = "idle"
        /\ isStale(queries[key], key[1])
  IN
  /\ lookups < MaxLookups
  /\ enabled(point)
  /\ \E key \in Keys : starts(key)
  /\ queries' = [key \in Keys |->
                   IF starts(key) THEN fetchState(queries[key]) ELSE queries[key]]
  /\ lookups' = lookups + 1
  /\ UNCHANGED <<provider, storageMode, localStorage, now, selectedCity, storeOps,
                 lastSaved, displayUnits, args, result, retries>>
  /\ useEffect(originalCurrentWeather, originalForecast)

HomeAnswers ==
  \E kind \in Kinds, point \in Points : \E fr \in PageAnswers : Respond(kind, point, fr)

NextHome ==
  \/ \E point \in Points : SelectCity(point)
  \/ \E point \in Points : UseLocation(point)
  \/ ClearSearch
  \/ \E point \in Points : Observe(point)
  \/ HomeAnswers

SpecHome == InitPage /\ [][NextHome]_vars

\* ------------------------------------------------ the storage helpers alone

\* A direct call of a helper that only rewrites the store.
StoreCall(store) ==
  /\ storeOps < MaxStoreOps
  /\ storeOps' = storeOps + 1
  /\ localStorage' = store
  /\ UNCHANGED <<displayUnits, args, result, retries, provider, storageMode, now, selectedCity, queries, lookups, lastSaved,
                 originalCurrentWeather, originalForecast>>

AddRecentSearch(city) == StoreCall(addRecentSearch(localStorage, city))

ClearRecentSearches == StoreCall(clearRecentSearches(localStorage))

AddFavorite(city) == StoreCall(addFavorite(localStorage, city).store)

RemoveFavorite(city) == StoreCall(removeFavorite(localStorage, city).store)

ClearFavorites == StoreCall(clearFavorites(localStorage))

SetLastGeo(city) == StoreCall(setLastGeo(localStorage, city.lat, city.lon, city.name))

ClearLastGeo == StoreCall(clearLastGeo(localStorage))

\* searchCity(query) called by the search box.
SearchCity(query, fr, body) ==
  StoreCall(searchCity(query, fr, body, localStorage).store)

\* saveSnapshot(data, city, units) called directly.
SaveSnapshot(point, city, units) ==
  /\ storeOps < MaxStoreOps
  /\ storeOps' = storeOps + 1
  /\ localStorage' = saveSnapshot(localStorage, ForecastOf(point.lat, point.lon), city, units)
  /\ lastSaved' = [data |-> ForecastOf(point.lat, point.lon), city |-> city,
                   units |-> units,
                   saves |-> IF lastSaved = NULL THEN 1 ELSE lastSaved.saves + 1]
  /\ UNCHANGED <<displayUnits, args, result, retries, provider, storageMode, now, selectedCity, queries, lookups,
                 originalCurrentWeather, originalForecast>>

\* The bodies the search box gets: text that is not JSON, or one place.
SearchBodies ==
  {[json |-> FALSE], [json |-> TRUE, data |-> [results |-> Array(<<GeocodingLondon>>)]]}

\* The helpers other than the snapshot's, and the city search.
SideOps ==
  \/ \E city \in Cities : AddRecentSearch(city)
  \/ ClearRecentSearches
  \/ \E city \in Cities : AddFavorite(city)
  \/ \E city \in Cities : RemoveFavorite(city)
  \/ ClearFavorites
  \/ \E city \in Cities : SetLastGeo(city)
  \/ ClearLastGeo
  \/ \E query \in Queries, fr \in PageAnswers, body \in SearchBodies :
       SearchCity(query, fr, body)

NextStorage ==
  \/ SideOps
  \/ \E point \in Points, p2 \in Points, units \in Units :
       SaveSnapshot(point, cityName(p2.lat, p2.lon), units)
  \/ ClearSnapshot
  \/ Tick

SpecStorage == Init /\ [][NextStorage]_vars

\* The page and the other helpers side by side.
NextAll ==
  \/ Next
  \/ storeOps < MaxSideOps /\ SideOps

SpecAll == Init /\ [][NextAll]_vars

\* ------------------------------------------------- the functions called alone

\* The page at rest: nothing selected, nothing stored, no call made yet.
InitAlone ==
  /\ provider \in Providers
  /\ storageMode = "ok"
  /\ localStorage = [k \in StorageKeys |-> NoItem]
  /\ selectedCity = NULL
  /\ queries = [key \in Keys |-> NoQuery]
  /\ lookups = 0
  /\ storeOps = 0
  /\ lastSaved = NULL
  /\ displayUnits = "metric"
  /\ args = NULL
  /\ result = NULL
  /\ retries = 0
  /\ originalCurrentWeather = NULL
  /\ originalForecast = NULL

\* The instants of the calls and of the snapshots: the full hours, and one
\* millisecond before and after the 24th.
RecentTimes ==
  {h * 60 * 60 * 1000 : h \in 0..MaxHours}
    \cup {twentyFourHours - 1, twentyFourHours + 1}

\* The timestamps a stored snapshot can carry: ISO strings, and a text
\* that new Date() cannot parse.
Timestamps == {ToISOString(t) : t \in RecentTimes} \cup {[text |-> "not a date"]}

\* isSnapshotRecent(snapshot) called.
IsSnapshotRecent(timestamp) ==
  LET snapshot == [data |-> ForecastOf(515074, -1278), timestamp |-> timestamp,
                   city |-> cityName(515074, -1278), units |-> "metric"]
  IN
  /\ args' = [fn |-> "isSnapshotRecent", snapshot |-> snapshot]
  /\ result' = [value |-> isSnapshotRecent(snapshot)]
  /\ UNCHANGED <<provider, storageMode, localStorage, now, selectedCity, queries,
                 lookups, storeOps, lastSaved, displayUnits, retries,
                 originalCurrentWeather, originalForecast>>

InitRecent == InitAlone /\ now \in RecentTimes

\* A function called alone at time 0.
InitCall == InitAlone /\ now = 0

NextRecent == \E timestamp \in Timestamps : IsSnapshotRecent(timestamp)

SpecRecent == InitRecent /\ [][NextRecent]_vars

\* searchCity(query) called alone, the provider answering with `fr` and
\* the body `body`.
CallSearchCity(query, fr, body) ==
  LET out == searchCity(query, fr, body, localStorage) IN
  /\ args' = [fn |-> "searchCity", query |-> query, fr |-> fr, body |-> body]
  /\ result' = [thrown |-> out.thrown, value |-> out.value, fetches |-> out.fetches]
  /\ localStorage' = out.store
  /\ UNCHANGED <<provider, storageMode, now, selectedCity, queries,
                 lookups, storeOps, lastSaved, displayUnits, retries,
                 originalCurrentWeather, originalForecast>>

NextSearch ==
  \E query \in Queries, fr \in FetchResults, body \in GeocodingBodies :
    CallSearchCity(query, fr, body)

SpecSearch == InitCall /\ [][NextSearch]_vars

\* The codes getWeatherMain is called with: the WMO codes and their
\* neighbours.
WeatherCodes == -1..MaxCode

\* getWeatherMain(code) called alone.
GetWeatherMain(code) ==
  /\ args' = [fn |-> "getWeatherMain", code |-> code]
  /\ result' = [value |-> getWeatherMain(code)]
  /\ UNCHANGED <<provider, storageMode, localStorage, now, selectedCity, queries,
                 lookups, storeOps, lastSaved, displayUnits, retries,
                 originalCurrentWeather, originalForecast>>

NextCodes == \E code \in WeatherCodes : GetWeatherMain(code)

SpecCodes == InitCall /\ [][NextCodes]_vars

\* array.slice(start, end) for 0 <= start <= end.
slice(seq, start, end) == SubSeq(seq, start + 1, Min(Len(seq), end))

\* The daily entries given to ForecastList: `forecasts` is missing, or an
\* array of entries, each known by its dt.
DailyEntries ==
  {NULL} \cup
  {Array(seq) : seq \in UNION {[1..n -> {[dt |-> d] : d \in 1..2}] : n \in 0..MaxDays}}

\* A faulty ForecastList: the first five entries, today included.
ForecastList_withToday(forecasts, isLoading) ==
  IF isLoading THEN [view |-> "loadingSkeleton", items |-> <<>>]
  ELSE IF forecasts = NULL \/ Len(forecasts.array) = 0
    THEN [view |-> "emptyState", items |-> <<>>]
  ELSE [view |-> "list", items |-> slice(forecasts.array, 0, 5)]

\* What ForecastList renders: the skeleton, the empty state, or the list
\* with one ForecastItem per entry of forecasts.slice(1, 6).
ForecastList(forecasts, isLoading) ==
  IF isLoading THEN [view |-> "loadingSkeleton", items |-> <<>>]
  ELSE IF forecasts = NULL \/ Len(forecasts.array) = 0
    THEN [view |-> "emptyState", items |-> <<>>]
  ELSE [view |-> "list", items |-> slice(forecasts.array, 1, 6)]

\* ForecastList rendered alone.
RenderForecastList(forecasts, isLoading) ==
  /\ args' = [fn |-> "ForecastList", forecasts |-> forecasts, isLoading |-> isLoading]
  /\ result' = ForecastList(forecasts, isLoading)
  /\ UNCHANGED <<provider, storageMode, localStorage, now, selectedCity, queries,
                 lookups, storeOps, lastSaved, displayUnits, retries,
                 originalCurrentWeather, originalForecast>>

NextList ==
  \E forecasts \in DailyEntries, isLoading \in BOOLEAN :
    RenderForecastList(forecasts, isLoading)

SpecList == InitCall /\ [][NextList]_vars

\* ------------------------------------------------------- the favorites alone

\* The cities offered to the favorites helpers: nine places 0.001 degrees
\* apart on one meridian, and a tenth half a step from the first two.  The
\* user travels north: a city is offered when no favorite lies further
\* north than its surroundings, and the first two at any time.
FavoriteCityAt(lat) == [name |-> "Town", country |-> "XX", lat |-> lat, lon |-> 0]

FavoriteCities ==
  {FavoriteCityAt(10 * i) : i \in 0..MAX_FAVORITES} \cup {FavoriteCityAt(5)}

\* A call of a favorites helper: the store it leaves and the value it
\* returns, with the list it found.
FavoritesCall(fn, city, out) ==
  /\ args' = [fn |-> fn, city |-> city, favorites |-> getFavorites(localStorage)]
  /\ result' = [value |-> out.result]
  /\ localStorage' = out.store
  /\ UNCHANGED <<provider, storageMode, now, selectedCity, queries, lookups,
                 storeOps, lastSaved, displayUnits, retries,
                 originalCurrentWeather, originalForecast>>

Offered(city) ==
  LET favorites == getFavorites(localStorage) IN
  \/ city.lat <= 5
  \/ \A i \in 1..Len(favorites) : city.lat >= favorites[i].lat - 5

CallAddFavorite(city) ==
  /\ Offered(city)
  /\ FavoritesCall("addFavorite", city, addFavorite(localStorage, city))

CallRemoveFavorite(city) ==
  FavoritesCall("removeFavorite", city, removeFavorite(localStorage, city))

CallClearFavorites ==
  FavoritesCall("clearFavorites", NULL,
                [result |-> NULL, store |-> clearFavorites(localStorage)])

InitFavorites == InitAlone /\ now = 0 /\ provider = "open-meteo"

NextFavorites ==
  \/ \E city \in FavoriteCities : CallAddFavorite(city)
  \/ \E city \in {FavoriteCityAt(0), FavoriteCityAt(5)} : CallRemoveFavorite(city)
  \/ CallClearFavorites

SpecFavorites == InitFavorites /\ [][NextFavorites]_vars

\* ------------------------------------------------- the recent searches alone

\* The cities searched for: seven places, and the first of them under a
\* second name.
RecentCityAt(lat, name) == [lat |-> lat, lon |-> 0, name |-> name, country |-> "XX"]

RecentCities ==
  {RecentCityAt(i, "Town") : i \in 0..MAX_RECENT} \cup {RecentCityAt(0, "Old Town")}

\* addRecentSearch(city) called, with whether the list held the place.
CallAddRecentSearch(city) ==
  LET recent == getRecentSearches(localStorage) IN
  /\ args' = [fn |-> "addRecentSearch", city |-> city,
              listed |-> \E i \in 1..Len(recent) :
                           recent[i].lat = city.lat /\ recent[i].lon = city.lon]
  /\ result' = NULL
  /\ localStorage' = addRecentSearch(localStorage, city)
  /\ UNCHANGED <<provider, storageMode, now, selectedCity, queries, lookups,
                 storeOps, lastSaved, displayUnits, retries,
                 originalCurrentWeather, originalForecast>>

\* clearRecentSearches() called.
CallClearRecentSearches ==
  /\ args' = [fn |-> "clearRecentSearches"]
  /\ result' = NULL
  /\ localStorage' = clearRecentSearches(localStorage)
  /\ UNCHANGED <<provider, storageMode, now, selectedCity, queries, lookups,
                 storeOps, lastSaved, displayUnits, retries,
                 originalCurrentWeather, originalForecast>>

NextSearches ==
  \/ \E city \in RecentCities : CallAddRecentSearch(city)
  \/ CallClearRecentSearches

SpecSearches == InitFavorites /\ [][NextSearches]_vars

\* ------------------------------------------------------- the unit converter

\* A JS number computed in double precision: the exact value num / den of
\* the arithmetic, and a bound err, in units of 2^-42, on the rounding
\* error gathered on the way.  Every value of the conversions is below 4096
\* in magnitude, so one operation rounds by at most 2^-42.
Double(num, den) == [num |-> num, den |-> den, err |-> 0]

times(x, k) == [num |-> x.num * k, den |-> x.den, err |-> x.err * k + 1]

dividedBy(x, k) ==
  [num |-> x.num, den |-> x.den * k, err |-> (x.err + k - 1) \div k + 1]

plus(x, k) == [num |-> x.num + k * x.den, den |-> x.den, err |-> x.err + 1]

\* A faulty convert: the way back to metric forgets the offset of 32.
convert_noOffset(value, fromUnits, toUnits) ==
  IF fromUnits = toUnits THEN value
  ELSE IF toUnits = "imperial" THEN plus(dividedBy(times(value, 9), 5), 32)
  ELSE dividedBy(times(value, 5), 9)

\* convert(record, fromUnits, toUnits) for a temperature:
\* F = C * 9/5 + 32, and C = (F - 32) * 5/9.
convert(value, fromUnits, toUnits) ==
  IF fromUnits = toUnits THEN value
  ELSE IF toUnits = "imperial" THEN plus(dividedBy(times(value, 9), 5), 32)
  ELSE dividedBy(times(plus(value, -32), 5), 9)

\* The temperatures of a canonical record: tenths of a degree.
Temperatures == {Double(t, 10) : t \in (-MaxTemp)..MaxTemp}

\* A temperature converted to imperial and back.
ConvertRoundTrip(value) ==
  LET imperial == convert(value, "metric", "imperial") IN
  /\ args = NULL
  /\ args' = [fn |-> "convert", value |-> value]
  /\ result' = [imperial |-> imperial,
                metric |-> convert(imperial, "imperial", "metric")]
  /\ UNCHANGED <<provider, storageMode, localStorage, now, selectedCity, queries,
                 lookups, storeOps, lastSaved, displayUnits, retries,
                 originalCurrentWeather, originalForecast>>

NextConvert == \E value \in Temperatures : ConvertRoundTrip(value)

SpecConvert == InitCall /\ [][NextConvert]_vars

\* ------------------------------------------------------------------ claims

DayMs == 24 * 60 * 60 * 1000

Is4xx(fr) == fr.type = "response" /\ fr.status >= 400 /\ fr.status <= 499

Failed(fr) == ~(fr.type = "response" /\ fr.status >= 200 /\ fr.status <= 299)

NetworkDown == [type |-> "reject"]

Http200 == [type |-> "response", status |-> 200]

\* The error getForecast's caller is to see for a failed fetch.
ForecastErrorOf(fr) ==
  IF fr.type = "reject" THEN [name |-> "TypeError", message |-> <<"Failed to fetch", 0>>]
  ELSE IF fr.type = "response"
    THEN [name |-> "Error", message |-> <<"Failed to fetch forecast", fr.status>>]
  ELSE [name |-> "Error", message |-> <<"Unsupported provider or missing key", 0>>]

\* The snapshot slot as stored, and its age.
Slot == localStorage[SNAPSHOT_KEY]

SlotAge == now - Slot.json.timestamp.iso

\* C1: when the provider answers the first call of a lookup (current or
\* forecast) with an HTTP 4xx, the lookup is over: no retry is pending, the
\* provider was called exactly once and the query holds the error.
C1_NoRetryOn4xx ==
  \A kind \in Kinds, point \in Points :
    LET q == queries[<<kind, point, "metric">>] IN
    (Is4xx(q.fr) /\ q.calls = 1)
      => (q.fetchStatus = "idle" /\ q.status = "error" /\ q.error # NULL)

\* C2: a forecast lookup settled by an HTTP 4xx answer holds the error, not
\* data: the snapshot never stands in for a client error.
C2_ClientErrorNotReplaced ==
  \A point \in Points :
    LET q == queries[<<"forecast", point, "metric">>] IN
    (Is4xx(q.fr) /\ q.fetchStatus = "idle") => q.status = "error"

\* C3: when fetch() rejects (the network is down) in a forecast call and the
\* slot holds a snapshot less than 24 hours old, getForecast returns: the
\* query succeeds with the snapshot's forecast, _cached = true and _cachedAt
\* the timestamp the snapshot was stored with.
C3_FallbackOnNetworkError ==
  [][\A point \in Points :
       (Respond("forecast", point, NetworkDown) /\ Slot # NoItem /\ SlotAge < DayMs)
         => LET q == queries'[<<"forecast", point, "metric">>]
                snapshot == Slot.json
            IN /\ q.status = "success"
               /\ q.fetchStatus = "idle"
               /\ DOMAIN q.data = DOMAIN snapshot.data \cup {"_cached", "_cachedAt"}
               /\ \A f \in DOMAIN snapshot.data : q.data[f] = snapshot.data[f]
               /\ q.data._cached = TRUE
               /\ q.data._cachedAt = snapshot.timestamp]_vars

\* C3's case: the network is down, and the query holds a forecast stamped
\* with the time of a snapshot stored 12 hours earlier.
C3_Witness ==
  \E point \in Points :
    LET q == queries[<<"forecast", point, "metric">>] IN
    /\ q.fr = NetworkDown
    /\ q.status = "success"
    /\ q.fetchStatus = "idle"
    /\ "_cached" \in DOMAIN q.data
    /\ Slot # NoItem
    /\ q.data._cachedAt = Slot.json.timestamp
    /\ SlotAge = ClockStep

\* C4: when a forecast call fails and the slot is empty, the store is
\* unusable, or the snapshot is 24 hours old or older, getForecast throws
\* the original error and the query gets no data from the call.
C4_NoFallbackWithoutRecentSnapshot ==
  [][\A point \in Points, fr \in Answers :
       (/\ Failed(fr)
        /\ (storageMode # "ok" \/ Slot = NoItem \/ SlotAge >= DayMs)
        /\ Respond("forecast", point, fr))
         => LET q == queries'[<<"forecast", point, "metric">>] IN
            /\ q.failureReason = ForecastErrorOf(fr)
            /\ q.data = queries[<<"forecast", point, "metric">>].data
            /\ q.dataUpdatedAt = queries[<<"forecast", point, "metric">>].dataUpdatedAt]_vars

\* C4's case: a snapshot exactly 24 hours old is in the slot and the
\* forecast query of a dead network holds the error and no data.
C4_Witness ==
  \E point \in Points :
    LET q == queries[<<"forecast", point, "metric">>] IN
    /\ q.fr = NetworkDown
    /\ q.status = "error"
    /\ q.fetchStatus = "idle"
    /\ q.error = ForecastErrorOf(NetworkDown)
    /\ q.data = NULL
    /\ Slot # NoItem
    /\ SlotAge >= DayMs

\* C5: a forecast lookup reads the snapshot store only after the provider
\* was called a second time (the retry), and holds snapshot data only then.
C5_RetryBeforeSnapshot ==
  \A point \in Points :
    LET q == queries[<<"forecast", point, "metric">>] IN
    q.snapRead => q.calls >= 2

\* C6: a lookup calls the provider at most twice: no call is in flight
\* once one call has failed and been retried.
C6_AtMostTwoCalls ==
  \A kind \in Kinds, point \in Points :
    LET q == queries[<<kind, point, "metric">>] IN
    /\ q.calls <= 2
    /\ q.fetchStatus = "fetching" => q.calls <= 1

\* C6's case: a lookup that failed twice on a dead network and is over.
C6_Witness ==
  \E kind \in Kinds, point \in Points :
    LET q == queries[<<kind, point, "metric">>] IN
    /\ q.calls = 2
    /\ q.fr = NetworkDown
    /\ q.status = "error"
    /\ q.fetchStatus = "idle"

\* C7: a getCurrent call leaves the store as it is and does not read the
\* snapshot; when it fails it throws, and the query gets no data from it.
C7_CurrentHasNoFallback ==
  [][\A point \in Points, fr \in Answers :
       Respond("current", point, fr)
         => LET q == queries'[<<"current", point, "metric">>] IN
            /\ localStorage' = localStorage
            /\ ~q.snapRead
            /\ Failed(fr) => /\ q.failureReason # NULL
                             /\ q.data = queries[<<"current", point, "metric">>].data
                             /\ q.fetchStatus = "idle" => q.status = "error"]_vars

\* C7's case: the current-conditions query failed while a snapshot fresh
\* enough for a fallback was in the slot.
C7_Witness ==
  \E point \in Points :
    LET q == queries[<<"current", point, "metric">>] IN
    /\ q.status = "error"
    /\ q.fetchStatus = "idle"
    /\ q.data = NULL
    /\ Slot # NoItem
    /\ SlotAge < DayMs

\* C8: when getForecast returns a forecast it got from the provider, the
\* slot holds that forecast with the request's location key and units,
\* whichever provider is configured (the store being usable).
C8_SnapshotSavedOnSuccess ==
  [][\A point \in Points :
       (Respond("forecast", point, Http200) /\ storageMode = "ok")
         => LET q == queries'[<<"forecast", point, "metric">>]
                slot == localStorage'[SNAPSHOT_KEY]
            IN /\ q.status = "success"
               /\ slot # NoItem
               /\ slot.json.data = q.data
               /\ slot.json.city = cityName(point.lat, point.lon)
               /\ slot.json.units = "metric"]_vars

\* C9: the snapshot slot changes only in a step that is clearSnapshot or a
\* forecast call that got its forecast from the provider.
C9_SnapshotFrame ==
  [][localStorage'[SNAPSHOT_KEY] # localStorage[SNAPSHOT_KEY]
       => \/ ClearSnapshot
          \/ \E point \in Points :
               /\ Respond("forecast", point, Http200)
               /\ queries'[<<"forecast", point, "metric">>].status = "success"
               /\ "_cached" \notin DOMAIN queries'[<<"forecast", point, "metric">>].data]_vars

\* C9's case: with a snapshot in the slot, a forecast query was answered
\* from it, a current-conditions or forecast lookup ran, and another helper
\* of the store was called: the snapshot is still the one that was served.
C9_Witness ==
  /\ Slot # NoItem
  /\ storeOps = 1
  /\ \E k \in StorageKeys \ {SNAPSHOT_KEY} : localStorage[k] # NoItem
  /\ \E point \in Points :
       LET q == queries[<<"forecast", point, "metric">>] IN
       /\ q.status = "success"
       /\ "_cached" \in DOMAIN q.data
       /\ q.data._cachedAt = Slot.json.timestamp

\* C10: on a usable store, getSnapshot returns the data, city and units of
\* the last saveSnapshot call when no clearSnapshot followed it, else null.
C10_MostRecentWriteWins ==
  storageMode = "ok" =>
    IF lastSaved = NULL THEN getSnapshot(localStorage) = NULL
    ELSE /\ getSnapshot(localStorage) # NULL
         /\ getSnapshot(localStorage).data = lastSaved.data
         /\ getSnapshot(localStorage).city = lastSaved.city
         /\ getSnapshot(localStorage).units = lastSaved.units

\* C10's case: two saveSnapshot calls in a row, the second one retrievable.
C10_Witness ==
  /\ storageMode = "ok"
  /\ lastSaved # NULL
  /\ lastSaved.saves = 2
  /\ getSnapshot(localStorage) # NULL
  /\ getSnapshot(localStorage).city = lastSaved.city

\* C11: when the store is absent or throws on every access, saveSnapshot and
\* clearSnapshot leave it as it was and getSnapshot returns null, which is
\* what getSnapshot returns for an empty slot of a usable store.
C11_UnavailableStoreIsEmpty ==
  /\ storageMode # "ok" =>
       /\ localStorage = [k \in StorageKeys |-> NoItem]
       /\ getSnapshot(localStorage) = NULL
  /\ Slot = NoItem => getSnapshot(localStorage) = NULL

\* C11's case: saveSnapshot was called on a store that throws, and
\* getSnapshot returns null.
C11_Witness ==
  /\ storageMode = "throws"
  /\ lastSaved # NULL
  /\ storeOps = MaxStoreOps
  /\ getSnapshot(localStorage) = NULL

\* C12: isSnapshotRecent answers true exactly when the snapshot's timestamp
\* is a date and the time since it is strictly less than 24 hours: not at 24
\* hours, not beyond, and not for a timestamp that cannot be parsed.
C12_RecentIffUnder24h ==
  (args # NULL /\ args.fn = "isSnapshotRecent") =>
    LET timestamp == args.snapshot.timestamp IN
    result.value = TRUE <=> ("iso" \in DOMAIN timestamp /\ now - timestamp.iso < DayMs)

\* C12's case: a snapshot whose timestamp is no date was found not recent.
C12_Witness ==
  /\ args # NULL
  /\ args.fn = "isSnapshotRecent"
  /\ "iso" \notin DOMAIN args.snapshot.timestamp
  /\ result.value = FALSE

\* C13: a change of the display unit changes neither the cache nor the
\* store and starts no lookup; no entry is ever kept under a key with a
\* unit other than 'metric'; and a lookup goes to the provider only when the
\* entry under the 'metric' key is stale, whatever the display unit.
C13_UnitsToggleIsCacheHit ==
  [][/\ displayUnits' # displayUnits
       => /\ queries' = queries
          /\ localStorage' = localStorage
          /\ lookups' = lookups
     /\ \A key \in Keys : key[3] # "metric" => queries'[key] = NoQuery
     /\ \A kind \in Kinds, point \in Points :
          StartFetch(kind, point)
            => isStale(queries[<<kind, point, "metric">>], kind)]_vars

\* C13's case: the page shows London in imperial units, with current
\* conditions and forecast each fetched by one provider call.
C13_Witness ==
  /\ displayUnits = "imperial"
  /\ selectedCity # NULL
  /\ lookups = 2
  /\ retries = 0
  /\ \A kind \in Kinds :
       LET q == queries[<<kind, selectedCity, "metric">>] IN
       /\ q.status = "success"
       /\ q.fetchStatus = "idle"
       /\ q.calls = 1

C15_StaleWhileRevalidate ==
  /\ [](\A point \in Points :
          LET q == queries[<<"current", point, "metric">>] IN
          (/\ enabled(point)
           /\ lookups < MaxLookups
           /\ q.status = "success"
           /\ q.fetchStatus = "idle"
           /\ now - q.dataUpdatedAt >= 8 * 60 * 1000)
            => ENABLED StartFetch("current", point))
  /\ [][\A point \in Points :
          LET q == queries[<<"current", point, "metric">>] IN
          (StartFetch("current", point) /\ q.status = "success")
            => /\ q.isInvalidated \/ now - q.dataUpdatedAt >= 8 * 60 * 1000
               /\ queries'[<<"current", point, "metric">>].status = "success"
               /\ queries'[<<"current", point, "metric">>].data = q.data
               /\ queries'[<<"current", point, "metric">>].fetchStatus = "fetching"
               /\ queries'[<<"current", point, "metric">>].inFlight = 1
               /\ queries'[<<"current", point, "metric">>].orphans = q.orphans]_vars

\* C15's case: current conditions fetched 8 minutes ago are on show while
\* the refresh of a lookup is in flight.
C15_Witness ==
  \E point \in Points :
    LET q == queries[<<"current", point, "metric">>] IN
    /\ q.status = "success"
    /\ q.fetchStatus = "fetching"
    /\ q.data # NULL
    /\ ~q.isInvalidated
    /\ q.inFlight = 1
    /\ now - q.dataUpdatedAt = 8 * 60 * 1000

\* C16: a request still in flight for a location that is no longer the
\* selected one writes nothing: when it settles, the cache entry keeps its
\* data and the snapshot store is as it was.
C16_StaleRequestWritesNothing ==
  [][\A kind \in Kinds, point \in Points, fr \in Answers :
       (selectedCity # point /\ Respond(kind, point, fr))
         => /\ queries'[<<kind, point, "metric">>].data
                 = queries[<<kind, point, "metric">>].data
            /\ queries'[<<kind, point, "metric">>].dataUpdatedAt
                 = queries[<<kind, point, "metric">>].dataUpdatedAt
            /\ localStorage' = localStorage]_vars

\* C17: handleRetry with a city selected leaves the entries of that city's
\* current conditions and forecast invalidated (the next lookup fetches
\* them again) and holding the data they held, whatever the display unit.
C17_RetryInvalidates ==
  [][Retry =>
       \A kind \in Kinds :
         LET key == observerKey(kind, selectedCity) IN
         (queries[key].status = "success" /\ queries[key].fetchStatus = "idle")
           => /\ queries'[key].isInvalidated
              /\ isStale(queries'[key], kind)
              /\ queries'[key].data = queries[key].data]_vars

\* Whether the caller can read the HTTP status off an error: as a `status`
\* property, or at least in the text of the message.
CarriesStatus(error, status) ==
  \/ "status" \in DOMAIN error /\ error.status = status
  \/ error.message[2] = status

\* C18: a lookup (current or forecast) that failed on a non-2xx response
\* holds an error that carries the HTTP status of that response, whatever
\* the status.
C18_ErrorCarriesStatus ==
  \A kind \in Kinds, point \in Points :
    LET q == queries[<<kind, point, "metric">>] IN
    (q.fr.type = "response" /\ ~ResponseOk(q.fr) /\ q.failureReason # NULL)
      => CarriesStatus(q.failureReason, q.fr.status)

\* The call of searchCity the state records: its query is blank, its fetch
\* failed (rejected or answered non-2xx), its 2xx answer is an object
\* without a results array, its 2xx answer cannot be read.
SearchCalled == args # NULL /\ args.fn = "searchCity"

SearchBlank == trim(args.query) = ""

SearchFetchFailed == args.fr.type = "reject" \/ ~ResponseOk(args.fr)

SearchNoResultsArray ==
  /\ ~SearchFetchFailed
  /\ args.body.json
  /\ args.body.data # NULL
  /\ ~isArray(args.body.data.results)

SearchUnreadable ==
  /\ ~SearchFetchFailed
  /\ \/ ~args.body.json
     \/ args.body.data = NULL
     \/ /\ isArray(args.body.data.results)
        /\ \E i \in 1..Len(args.body.data.results.array) :
             args.body.data.results.array[i] = NULL

SearchGaveEmpty == ~result.thrown /\ result.value = Array(<<>>)

\* C19 as stated: searchCity returns the empty list without raising for a
\* blank query (making no network call) and for a response without a
\* results array; it raises only for a non-2xx response or a transport
\* failure.
C19_Original ==
  SearchCalled =>
    /\ SearchBlank => (SearchGaveEmpty /\ result.fetches = 0)
    /\ (~SearchBlank /\ SearchNoResultsArray) => SearchGaveEmpty
    /\ result.thrown => (~SearchBlank /\ SearchFetchFailed)

\* C19: searchCity returns the empty list without raising for a blank
\* query (making no network call) and for a 2xx response whose JSON body is
\* an object without a results array; it raises exactly when the query is
\* not blank and the fetch is rejected, the response is non-2xx, or the 2xx
\* body cannot be read (not JSON, JSON null, or a results array holding
\* null).
C19_SearchCityEmptyOrRaises ==
  SearchCalled =>
    /\ SearchBlank => (SearchGaveEmpty /\ result.fetches = 0)
    /\ (~SearchBlank /\ SearchNoResultsArray) => SearchGaveEmpty
    /\ result.thrown <=> (~SearchBlank /\ (SearchFetchFailed \/ SearchUnreadable))

\* A search for "Lon" answered 200 with a body that is not JSON raised; the
\* call made one fetch.
C19_Witness ==
  /\ SearchCalled
  /\ ~SearchBlank
  /\ args.fr = Http200
  /\ ~args.body.json
  /\ result.thrown
  /\ result.value = JSONSyntaxError
  /\ result.fetches = 1

\* The codes of each category of the table.
CodesOf(category) ==
  CASE category = "Clear" -> {0, 1, 2, 3}
    [] category = "Fog" -> {45, 48}
    [] category = "Drizzle" -> {51, 53, 55, 56, 57}
    [] category = "Rain" -> {61, 63, 65, 66, 67, 80, 81, 82}
    [] category = "Snow" -> {71, 73, 75, 77, 85, 86}
    [] category = "Thunderstorm" -> {95, 96, 99}

Categories == {"Clear", "Fog", "Drizzle", "Rain", "Snow", "Thunderstorm"}

\* C20: getWeatherMain answers for every code: a code of the table gives
\* the category the table lists for it (3 gives "Clear"), any other code
\* gives "Unknown".
C20_WeatherMainTotal ==
  (args # NULL /\ args.fn = "getWeatherMain") =>
    /\ \A category \in Categories :
         args.code \in CodesOf(category) => result.value = category
    /\ (\A category \in Categories : args.code \notin CodesOf(category))
         => result.value = "Unknown"
    /\ args.code = 3 => result.value = "Clear"

\* getWeatherMain(3) was called and answered "Clear".
C20_Witness ==
  /\ args # NULL
  /\ args.fn = "getWeatherMain"
  /\ args.code = 3
  /\ result.value = "Clear"

\* C21: given a forecast of n >= 1 daily entries (and not told to show its
\* loading skeleton), ForecastList renders exactly the entries at the
\* indices 1..min(5, n-1), in their order: the entry of today (index 0) is
\* left out and at most 5 are shown.  In every case it renders at most 5.
C21_ListSkipsToday ==
  (args # NULL /\ args.fn = "ForecastList") =>
    /\ Len(result.items) <= 5
    /\ (~args.isLoading /\ args.forecasts # NULL /\ Len(args.forecasts.array) >= 1)
         => LET daily == args.forecasts.array
                shown == Min(5, Len(daily) - 1)
            IN /\ result.view = "list"
               /\ Len(result.items) = shown
               /\ \A k \in 1..shown : result.items[k] = daily[k + 1]

\* A forecast of 7 entries whose today differs from the days after it was
\* rendered as the 5 entries after today.
C21_Witness ==
  /\ args # NULL
  /\ args.fn = "ForecastList"
  /\ ~args.isLoading
  /\ args.forecasts # NULL
  /\ Len(args.forecasts.array) = 7
  /\ args.forecasts.array[1] = [dt |-> 1]
  /\ \A k \in 2..7 : args.forecasts.array[k] = [dt |-> 2]
  /\ result.items = <<[dt |-> 2], [dt |-> 2], [dt |-> 2], [dt |-> 2], [dt |-> 2]>>

\* Two cities equal in name and country whose coordinates differ by less
\* than 0.001 degrees (10 units of 1/10000).
NearlyEqual(a, b) ==
  /\ a.name = b.name
  /\ a.country = b.country
  /\ Abs(a.lat - b.lat) < 10
  /\ Abs(a.lon - b.lon) < 10

\* C22: after any calls of addFavorite, removeFavorite and clearFavorites
\* on a store that was empty, the stored list of favorites has at most 8
\* entries and no two of them are equal in name, country and coordinates
\* (within 0.001 degrees).
C22_FavoritesBoundedDistinct ==
  LET favorites == getFavorites(localStorage) IN
  /\ Len(favorites) <= 8
  /\ \A i, j \in 1..Len(favorites) :
       i # j => ~NearlyEqual(favorites[i], favorites[j])

\* The ninth city was added to a full list: the list holds 8, the newest
\* first, and the oldest is gone.
C22_Witness ==
  LET favorites == getFavorites(localStorage) IN
  /\ args # NULL
  /\ args.fn = "addFavorite"
  /\ Len(args.favorites) = 8
  /\ result.value = TRUE
  /\ Len(favorites) = 8
  /\ NearlyEqual(favorites[1], args.city)
  /\ \A i \in 1..8 : ~NearlyEqual(favorites[i], args.favorites[8])

\* C29: with storage available, addFavorite(c) returns true exactly when c
\* was not a favorite before the call; when it returned true, isFavorite(c)
\* holds right after the call; when it returned false, the stored list is
\* the one the call found.
C29_AddFavoriteResult ==
  (args # NULL /\ args.fn = "addFavorite" /\ storageMode = "ok") =>
    /\ result.value =
         ~(\E i \in 1..Len(args.favorites) : NearlyEqual(args.favorites[i], args.city))
    /\ result.value => isFavorite(localStorage, args.city)
    /\ ~result.value => getFavorites(localStorage) = args.favorites

\* addFavorite was refused for a city half a step from a stored favorite,
\* and the list is as it was.
C29_Witness ==
  /\ args # NULL
  /\ args.fn = "addFavorite"
  /\ storageMode = "ok"
  /\ args.city = FavoriteCityAt(5)
  /\ Len(args.favorites) >= 2
  /\ \E i \in 1..Len(args.favorites) : args.favorites[i].lat = 10
  /\ result.value = FALSE
  /\ getFavorites(localStorage) = args.favorites

\* C30: after any calls of addRecentSearch the stored list of recent
\* searches has at most 6 entries, no two of them with the same (lat, lon),
\* and right after a call the city of that call is first: a city added
\* again moves to the front and is listed once.
C30_RecentSearchesBoundedDistinct ==
  LET recent == getRecentSearches(localStorage) IN
  /\ Len(recent) <= 6
  /\ \A i, j \in 1..Len(recent) :
       i # j => (recent[i].lat # recent[j].lat \/ recent[i].lon # recent[j].lon)
  /\ (args # NULL /\ args.fn = "addRecentSearch")
       => /\ Len(recent) >= 1
          /\ recent[1] = args.city

\* A place of a full list was searched again under its other name: the
\* list still holds 6, that city first.
C30_Witness ==
  LET recent == getRecentSearches(localStorage) IN
  /\ args # NULL
  /\ args.fn = "addRecentSearch"
  /\ args.listed
  /\ args.city = RecentCityAt(0, "Old Town")
  /\ Len(recent) = 6
  /\ recent[1] = args.city
  /\ recent[6].lat = 6

\* Half of the tolerance 1e-6, in units of 2^-42 (1e-6 * 2^42 = 4398046.5).
HalfTolerance == 4398046 \div 2

\* C23: a temperature converted from metric to imperial and back to metric
\* is the original value within 1e-6: the exact arithmetic differs by at
\* most half of that, and so does the rounding error gathered.
C23_ConvertRoundTrip ==
  (args # NULL /\ args.fn = "convert") =>
    LET c == args.value
        r == result.metric
        dn == Abs(r.num * c.den - c.num * r.den)
        dd == r.den * c.den
    IN /\ dn <= dd \div 2000000
       /\ r.err <= HalfTolerance

\* 21.3 degrees Celsius became 70.34 degrees Fahrenheit and 21.3 again.
C23_Witness ==
  /\ args # NULL
  /\ args.fn = "convert"
  /\ args.value = Double(213, 10)
  /\ result.imperial.num * 100 = 7034 * result.imperial.den
  /\ result.metric.num * 10 = 213 * result.metric.den

\* C24: a forecast that getForecast returned from the snapshot for a
\* request at (lat, lon) is a forecast that was fetched for (lat, lon).
C24_FallbackIsForRequestedPlace ==
  \A point \in Points :
    LET q == queries[<<"forecast", point, "metric">>] IN
    (q.status = "success" /\ "_cached" \in DOMAIN q.data)
      => q.data.coord = [lat |-> point.lat, lon |-> point.lon]

\* C28: a forecast entry that holds data served from the snapshot is not
\* fresh: the next lookup of its key finds it stale and calls the provider.
C28_SnapshotDataIsStale ==
  \A point \in Points :
    LET q == queries[<<"forecast", point, "metric">>] IN
    (q.status = "success" /\ q.fetchStatus = "idle" /\ "_cached" \in DOMAIN q.data)
      => isStale(q, "forecast")

\* The observers of the selected city have started: a query that is to
\* fetch shows as fetching from its first render on.
Mounted ==
  selectedCity # NULL =>
    \A kind \in Kinds :
      ~(queryOf(kind).status = "pending" /\ queryOf(kind).fetchStatus = "idle")

SelectedCoord == [lat |-> selectedCity.lat, lon |-> selectedCity.lon]

\* C25: whenever the weather content is shown, originalCurrentWeather and
\* originalForecast (when set) were fetched for the selected city.
C25_OriginalsOfSelectedCity ==
  (ContentView /\ Mounted) =>
    /\ originalCurrentWeather.coord = SelectedCoord
    /\ originalForecast # NULL => originalForecast.coord = SelectedCoord

\* C26: once the cache entry of the selected city holds the data of a
\* settled fetch (the first one, a background refresh, a manual retry), the
\* record displayed is that data.
C26_DisplayFollowsCache ==
  \A kind \in Kinds :
    (selectedCity # NULL /\ queryOf(kind).status = "success"
                         /\ queryOf(kind).fetchStatus = "idle")
      => IF kind = "current" THEN shownCurrentWeather = dataOf("current")
         ELSE shownForecast = dataOf("forecast")

\* C27: the page renders exactly one of its four views: empty, loading,
\* error, content.
C27_ExactlyOneView ==
  Mounted =>
    Cardinality({view \in {"empty", "loading", "error", "content"} :
                   \/ view = "empty" /\ EmptyView
                   \/ view = "loading" /\ LoadingView
                   \/ view = "error" /\ ErrorView
                   \/ view = "content" /\ ContentView}) = 1

====
